---- MODULE Spec2Model ----
(***************************************************************************)
(* Model of docs/conf.py, the Sphinx build configuration of Silhouette.    *)
(*                                                                         *)
(* The module body of conf.py is executed top to bottom by the host        *)
(* (Sphinx) into a namespace; afterwards the host reads settings from the  *)
(* namespace, expands the extlinks roles and calls setup(app).             *)
(*                                                                         *)
(* Python strings that take part in formatting are sequences of tokens: a  *)
(* token is either a run of characters holding no '%', or one of the       *)
(* characters of a conversion ("%" followed by its conversion character),  *)
(* or a replacement field of str.format ("{0}", "{1}").  '' is << >>.      *)
(* Python None is the empty sequence where a string may stand.  The grave  *)
(* accent is the token BackQuote.                                          *)
(***************************************************************************)
EXTENDS Integers, Sequences, FiniteSets, TLC

MaxLoads == 2
MaxSetupCalls == 2

VARIABLES
    environ,          \* os.environ, restricted to READTHEDOCS
    installed,        \* whether sphinx_rtd_theme can be imported
    pc,               \* position in the module body
    ns,               \* the module namespace: name -> value
    exc,              \* the exception in flight, "" when none
    importAttempted,  \* whether this load executed import sphinx_rtd_theme
    app,              \* the host's stylesheet registry
    out,              \* what the host's last operation returned to it
    loads,            \* completed executions of the module body
    firstLoad,        \* the namespace the first execution produced
    lastOp            \* the kind of the last step

vars == <<environ, installed, pc, ns, exc, importAttempted,
          app, out, loads, firstLoad, lastOp>>

----------------------------------------------------------------------------
(* The environment the build runs in. *)

\* values the READTHEDOCS environment variable may be set to
EnvValues == {"True", "true", "1", ""}

\* os.environ restricted to READTHEDOCS: << >> when unset, <<v>> when set to v
Environs == {<< >>} \cup {<<v>> : v \in EnvValues}

\* the link targets (role contents) the host expands
Versions == {<< >>, <<"1.0">>, <<"2.0">>, <<"2.0-SNAPSHOT">>, <<"%", "s">>}

None == << >>

EmptyNs == [k \in {} |-> TRUE]

\* ns with name bound to value (a module-level assignment)
Bind(ns_, name, value) == (name :> value) @@ ns_

Defined(ns_, name) == name \in DOMAIN ns_

----------------------------------------------------------------------------
(* Python's formatting, as the configuration uses it. *)

Ok(v) == [ok |-> TRUE, val |-> v]
Raise(e) == [ok |-> FALSE, val |-> <<e>>]

FieldIndex(tok) == CASE tok = "{0}" -> 0 [] tok = "{1}" -> 1 [] OTHER -> -1

\* template.format(*args): every replacement field {n} becomes args[n]
RECURSIVE str_format(_, _)
str_format(template, args) ==
    IF template = << >> THEN Ok(<< >>)
    ELSE LET tok == Head(template)
             n == FieldIndex(tok)
             rest == str_format(Tail(template), args)
         IN IF n < 0
            THEN IF rest.ok THEN Ok(<<tok>> \o rest.val) ELSE rest
            ELSE IF n >= Len(args) THEN Raise("IndexError")
            ELSE IF rest.ok THEN Ok(args[n + 1] \o rest.val) ELSE rest

\* fmt % arg for a single string argument: scanning from position i with the
\* arguments not yet consumed
RECURSIVE PercentScan(_, _, _, _)
PercentScan(fmt, i, args, acc) ==
    IF i > Len(fmt)
    THEN IF args = << >> THEN Ok(acc) ELSE Raise("TypeError")
    ELSE IF fmt[i] = "%"
    THEN IF i = Len(fmt) THEN Raise("ValueError")
         ELSE IF fmt[i + 1] = "%" THEN PercentScan(fmt, i + 2, args, Append(acc, "%"))
         ELSE IF fmt[i + 1] = "s"
              THEN IF args = << >> THEN Raise("TypeError")
                   ELSE PercentScan(fmt, i + 2, Tail(args), acc \o Head(args))
         ELSE Raise("ValueError")
    ELSE PercentScan(fmt, i + 1, args, Append(acc, fmt[i]))

PercentFormat(fmt, arg) == PercentScan(fmt, 1, <<arg>>, << >>)

----------------------------------------------------------------------------
(* The values conf.py assigns. *)

\* os.environ.get('READTHEDOCS', default)
os_environ_get(env, default) == IF env = << >> THEN default ELSE env

\* variant: the flag follows the variable being set at all
on_rtd_value_any_set(env) == os_environ_get(env, None) # None

\* on_rtd = os.environ.get('READTHEDOCS', None) == 'True'
on_rtd_value(env) == os_environ_get(env, None) = <<"True">>

extensions == <<"sphinx.ext.ifconfig", "sphinx.ext.extlinks">>
templates_path == <<"_templates">>
exclude_patterns == <<"_build">>
source_suffix == ".rst"
master_doc == "index"
project == "Silhouette"
copyright == "2015, Christian Kaps"
last_stable == "1.0"
version == "2"
release == "2.0-SNAPSHOT"
pygments_style == "sphinx"

\* the grave accent, which a TLA+ string cannot hold
BackQuote == "[grave accent]"

\* variant: the substitution takes the second argument of format
rst_prolog_template_release ==
    <<"\n.. |last_stable| replace:: ", ":", "silhouette-doc", ":", BackQuote,
      "{1}", BackQuote, "\n">>

rst_prolog_template ==
    <<"\n.. |last_stable| replace:: ", ":", "silhouette-doc", ":", BackQuote,
      "{0}", BackQuote, "\n">>

\* the arguments of the .format call
rst_prolog_args(ns_) == << <<ns_.last_stable>>, <<ns_.release>> >>

RoleNames == {"silhouette-doc", "silhouette-api-doc", "silhouette-htmlzip-doc",
              "silhouette-pdf-doc", "silhouette-epub-doc"}

\* variant: the epub pattern holds the placeholder twice
extlinks_two_placeholders ==
    [name \in RoleNames |->
        IF name = "silhouette-epub-doc"
        THEN << <<"https://readthedocs.org/projects/silhouette/downloads/epub/",
                  "%", "s", "/", "%", "s", "/">>, << >> >>
        ELSE << <<"http://silhouette.mohiva.com/", "%", "s", "/">>, << >> >>]

\* variant: the api pattern lacks its trailing segment
extlinks_no_trailing_segment ==
    [name \in RoleNames |->
        IF name = "silhouette-api-doc"
        THEN << <<"http://silhouette.mohiva.com/api/", "%", "s">>, << >> >>
        ELSE << <<"http://silhouette.mohiva.com/", "%", "s", "/">>, << >> >>]

\* role name -> <<url pattern, caption prefix>>
extlinks ==
    [name \in RoleNames |->
        CASE name = "silhouette-doc" ->
               << <<"http://docs.silhouette.mohiva.com/", "%", "s", "/">>, << >> >>
          [] name = "silhouette-api-doc" ->
               << <<"http://silhouette.mohiva.com/api/", "%", "s", "/">>, << >> >>
          [] name = "silhouette-htmlzip-doc" ->
               << <<"https://readthedocs.org/projects/silhouette/downloads/htmlzip/",
                    "%", "s", "/">>, << >> >>
          [] name = "silhouette-pdf-doc" ->
               << <<"https://readthedocs.org/projects/silhouette/downloads/pdf/",
                    "%", "s", "/">>, << >> >>
          [] name = "silhouette-epub-doc" ->
               << <<"https://readthedocs.org/projects/silhouette/downloads/epub/",
                    "%", "s", "/">>, << >> >>]

default_theme == "default"

\* variant: the probe runs whatever the flag
theme_probe_gate_always(on_rtd) == TRUE

\* if not on_rtd:
theme_probe_gate(on_rtd) == ~on_rtd

\* what importing a module that cannot be located raises
import_failure == "ModuleNotFoundError"

\* variant: the handler names another exception class
except_clause_key_error == "KeyError"

\* except ImportError:
except_clause == "ImportError"

\* exception class e is caught by a handler for class h
IsInstance(e, h) == e = h \/ (e = "ModuleNotFoundError" /\ h = "ImportError")

\* variant: the theme is chosen without its path
set_rtd_theme_no_path(ns_) == Bind(ns_, "html_theme", "sphinx_rtd_theme")

\* html_theme = 'sphinx_rtd_theme'
\* html_theme_path = [sphinx_rtd_theme.get_html_theme_path()]
set_rtd_theme(ns_) ==
    Bind(Bind(ns_, "html_theme", "sphinx_rtd_theme"),
         "html_theme_path", <<"sphinx_rtd_theme.get_html_theme_path()">>)

\* variant: the path is appended to a list that survives a reload
html_static_path_appended(ns_) ==
    IF Defined(ns_, "html_static_path")
    THEN ns_.html_static_path \o <<"_static">>
    ELSE <<"_static">>

html_static_path(ns_) == <<"_static">>
html_use_smartypants == TRUE
htmlhelp_basename == "Silhouettedoc"

\* variant: the hook registers a second asset
setup_two_assets(app_, ns_) ==
    [app |-> app_ \o <<"theme_overrides.css", "theme_overrides.js">>,
     ns |-> ns_, ret |-> None]

\* variant: the hook also adds the stylesheet's directory to html_static_path
setup_touching_config(app_, ns_) ==
    [app |-> Append(app_, "theme_overrides.css"),
     ns |-> Bind(ns_, "html_static_path", Append(ns_.html_static_path, "_overrides")),
     ret |-> None]

\* def setup(app): app.add_stylesheet('theme_overrides.css')
\* the host's stylesheet registry, the module namespace and the value returned
setup(app_, ns_) ==
    [app |-> Append(app_, "theme_overrides.css"), ns |-> ns_, ret |-> None]

latex_elements == EmptyNs
latex_documents ==
    << <<"index", "Silhouette.tex", "Silhouette Documentation",
         "Christian Kaps", "manual">> >>
man_pages ==
    << <<"index", "silhouette", "Silhouette Documentation",
         <<"Christian Kaps">>, 1>> >>

\* the names bound after the theme probe
LateSettings == {"html_static_path", "html_use_smartypants", "htmlhelp_basename",
                 "setup", "latex_elements", "latex_documents", "man_pages"}

----------------------------------------------------------------------------
(* The host's expansion of an extlinks role: full_url = base_url % part,   *)
(* falling back to base_url + part with a warning when the pattern cannot  *)
(* be formatted; the caption is prefix + part (no entry has prefix None).  *)

make_link_role(base_url, prefix, part) ==
    LET r == PercentFormat(base_url, part)
    IN [url |-> IF r.ok THEN r.val ELSE base_url \o part,
        title |-> prefix \o part,
        warning |-> ~r.ok]

----------------------------------------------------------------------------
(* Execution of the module body. *)

Init ==
    /\ environ \in Environs
    /\ installed \in BOOLEAN
    /\ pc = "start"
    /\ ns = EmptyNs
    /\ exc = ""
    /\ importAttempted = FALSE
    /\ app = << >>
    /\ out = None
    /\ loads = 0
    /\ firstLoad = EmptyNs
    /\ lastOp = "init"

Host == <<app, out>>

\* lines 4-6
ReadEnv ==
    /\ pc = "start"
    /\ ns' = Bind(Bind(Bind(ns, "sys", "module sys"), "os", "module os"),
                  "on_rtd", on_rtd_value(environ))
    /\ pc' = "general"
    /\ lastOp' = "load"
    /\ UNCHANGED <<environ, installed, exc, importAttempted, Host, loads, firstLoad>>

\* lines 10-20
General ==
    /\ pc = "general"
    /\ ns' = ("extensions" :> extensions) @@ ("templates_path" :> templates_path)
             @@ ("exclude_patterns" :> exclude_patterns)
             @@ ("source_suffix" :> source_suffix) @@ ("master_doc" :> master_doc)
             @@ ("project" :> project) @@ ("copyright" :> copyright)
             @@ ("last_stable" :> last_stable) @@ ("version" :> version)
             @@ ("release" :> release) @@ ("pygments_style" :> pygments_style)
             @@ ns
    /\ pc' = "prolog"
    /\ lastOp' = "load"
    /\ UNCHANGED <<environ, installed, exc, importAttempted, Host, loads, firstLoad>>

\* lines 21-23
RstProlog ==
    /\ pc = "prolog"
    /\ LET r == str_format(rst_prolog_template, rst_prolog_args(ns))
       IN IF r.ok
          THEN /\ ns' = Bind(ns, "rst_prolog", r.val)
               /\ pc' = "extlinks"
               /\ exc' = exc
          ELSE /\ ns' = ns
               /\ pc' = "error"
               /\ exc' = r.val[1]
    /\ lastOp' = "load"
    /\ UNCHANGED <<environ, installed, importAttempted, Host, loads, firstLoad>>

\* lines 25-31
Extlinks ==
    /\ pc = "extlinks"
    /\ ns' = Bind(ns, "extlinks", extlinks)
    /\ pc' = "theme"
    /\ lastOp' = "load"
    /\ UNCHANGED <<environ, installed, exc, importAttempted, Host, loads, firstLoad>>

\* line 35
ThemeDefault ==
    /\ pc = "theme"
    /\ ns' = Bind(ns, "html_theme", default_theme)
    /\ pc' = "gate"
    /\ lastOp' = "load"
    /\ UNCHANGED <<environ, installed, exc, importAttempted, Host, loads, firstLoad>>

\* line 36
ThemeGate ==
    /\ pc = "gate"
    /\ pc' = IF theme_probe_gate(ns.on_rtd) THEN "import" ELSE "html"
    /\ lastOp' = "load"
    /\ UNCHANGED <<environ, installed, ns, exc, importAttempted, Host, loads, firstLoad>>

\* lines 37-38
ImportTheme ==
    /\ pc = "import"
    /\ importAttempted' = TRUE
    /\ IF installed
       THEN /\ ns' = Bind(ns, "sphinx_rtd_theme", "module sphinx_rtd_theme")
            /\ pc' = "settheme"
            /\ exc' = exc
       ELSE /\ ns' = ns
            /\ pc' = "raised"
            /\ exc' = import_failure
    /\ lastOp' = "load"
    /\ UNCHANGED <<environ, installed, Host, loads, firstLoad>>

\* lines 39-40
SetTheme ==
    /\ pc = "settheme"
    /\ ns' = set_rtd_theme(ns)
    /\ pc' = "html"
    /\ lastOp' = "load"
    /\ UNCHANGED <<environ, installed, exc, importAttempted, Host, loads, firstLoad>>

\* lines 41-42: the handler swallows the exception, or it propagates
ExceptImportError ==
    /\ pc = "raised"
    /\ IF IsInstance(exc, except_clause)
       THEN pc' = "html" /\ exc' = ""
       ELSE pc' = "error" /\ exc' = exc
    /\ lastOp' = "load"
    /\ UNCHANGED <<environ, installed, ns, importAttempted, Host, loads, firstLoad>>

\* lines 44-55
HtmlOptions ==
    /\ pc = "html"
    /\ ns' = ("html_static_path" :> html_static_path(ns))
             @@ ("html_use_smartypants" :> html_use_smartypants)
             @@ ("htmlhelp_basename" :> htmlhelp_basename)
             @@ ("setup" :> "function setup") @@ ns
    /\ pc' = "latex"
    /\ lastOp' = "load"
    /\ UNCHANGED <<environ, installed, exc, importAttempted, Host, loads, firstLoad>>

\* lines 60-86; the module body has run to its end
LatexMan ==
    /\ pc = "latex"
    /\ ns' = ("latex_elements" :> latex_elements)
             @@ ("latex_documents" :> latex_documents)
             @@ ("man_pages" :> man_pages) @@ ns
    /\ pc' = "done"
    /\ loads' = loads + 1
    /\ firstLoad' = IF loads = 0 THEN ns' ELSE firstLoad
    /\ lastOp' = "load"
    /\ UNCHANGED <<environ, installed, exc, importAttempted, Host>>

----------------------------------------------------------------------------
(* The host's use of the loaded configuration. *)

\* the host calls the setup hook with itself
Setup ==
    /\ pc = "done"
    /\ Len(app) < MaxSetupCalls
    /\ LET r == setup(app, ns)
       IN /\ app' = r.app
          /\ ns' = r.ns
          /\ out' = r.ret
    /\ lastOp' = "setup"
    /\ UNCHANGED <<environ, installed, pc, exc, importAttempted, loads, firstLoad>>

\* the host expands a role :name:`part`
ExpandLink ==
    /\ pc = "done"
    /\ \E name \in DOMAIN ns.extlinks, part \in Versions :
          LET r == make_link_role(ns.extlinks[name][1], ns.extlinks[name][2], part)
          IN out' = [role |-> name, part |-> part, url |-> r.url,
                     title |-> r.title, warning |-> r.warning]
    /\ lastOp' = "expand"
    /\ UNCHANGED <<environ, installed, pc, ns, exc, importAttempted, app,
                   loads, firstLoad>>

\* the host reads one setting
ReadSetting ==
    /\ pc = "done"
    /\ \E name \in DOMAIN ns : out' = [name |-> name, value |-> ns[name]]
    /\ lastOp' = "read"
    /\ UNCHANGED <<environ, installed, pc, ns, exc, importAttempted, app,
                   loads, firstLoad>>

\* the module body is executed again in the same process, into a new
\* namespace (exec of the file) or into the old one (importlib.reload)
Reload ==
    /\ pc = "done"
    /\ loads < MaxLoads
    /\ \E fresh \in BOOLEAN : ns' = IF fresh THEN EmptyNs ELSE ns
    /\ pc' = "start"
    /\ importAttempted' = FALSE
    /\ lastOp' = "reload"
    /\ UNCHANGED <<environ, installed, exc, Host, loads, firstLoad>>

Next ==
    \/ ReadEnv \/ General \/ RstProlog \/ Extlinks \/ ThemeDefault \/ ThemeGate
    \/ ImportTheme \/ SetTheme \/ ExceptImportError \/ HtmlOptions \/ LatexMan
    \/ Setup \/ ExpandLink \/ ReadSetting \/ Reload

Spec == Init /\ [][Next]_vars

TypeOK ==
    /\ pc \in {"start", "general", "prolog", "extlinks", "theme", "gate", "import",
               "settheme", "raised", "html", "latex", "done", "error"}
    /\ loads \in 0..MaxLoads
    /\ Len(app) <= MaxSetupCalls

----------------------------------------------------------------------------
(* Properties. *)

Loaded == pc = "done"

Hosted == environ = <<"True">>

\* the module body's steps
LoadStep ==
    \/ ReadEnv \/ General \/ RstProlog \/ Extlinks \/ ThemeDefault \/ ThemeGate
    \/ ImportTheme \/ SetTheme \/ ExceptImportError \/ HtmlOptions \/ LatexMan

\* the number of '%s' conversions written in a string
CountPlaceholders(str) ==
    Cardinality({i \in 1..(Len(str) - 1) : str[i] = "%" /\ str[i + 1] = "s"})

\* the position of the first '%' of a pattern, 0 when it has none
PlaceholderAt(pattern) ==
    IF \E i \in 1..Len(pattern) : pattern[i] = "%"
    THEN CHOOSE i \in 1..Len(pattern) :
            pattern[i] = "%" /\ \A j \in 1..(i - 1) : pattern[j] # "%"
    ELSE 0

BaseUrl(pattern) ==
    IF PlaceholderAt(pattern) = 0 THEN pattern
    ELSE SubSeq(pattern, 1, PlaceholderAt(pattern) - 1)

TrailingSegment(pattern) ==
    IF PlaceholderAt(pattern) = 0 THEN << >>
    ELSE SubSeq(pattern, PlaceholderAt(pattern) + 2, Len(pattern))

\* C1 as stated: once the configuration is loaded, html_theme is
\* 'sphinx_rtd_theme' when the optional module is present and 'default'
\* otherwise, in every environment.
C1_ThemeFollowsModuleInEveryEnvironment ==
    Loaded => ns.html_theme = IF installed THEN "sphinx_rtd_theme" ELSE "default"

\* C1 amended: once the configuration is loaded, html_theme is
\* 'sphinx_rtd_theme' when the optional module is present and READTHEDOCS is
\* not the string 'True', and 'default' otherwise.
C1_ThemeFollowsModuleUnlessHosted ==
    Loaded => ns.html_theme = IF installed /\ ~Hosted THEN "sphinx_rtd_theme"
                              ELSE "default"

\* a load with the module present and READTHEDOCS set to something other
\* than 'True' chose the alternate theme
C1_Witness ==
    Loaded /\ installed /\ environ = <<"true">> /\ ns.html_theme = "sphinx_rtd_theme"

\* C2: every configured pattern holds exactly one placeholder, and an
\* expansion substitutes the version exactly once, without a warning, and
\* leaves no placeholder of the pattern in the URL (the '%s' the URL holds
\* are those of the version itself).
C2_PlaceholderFilledExactlyOnce ==
    /\ Defined(ns, "extlinks") =>
          \A name \in DOMAIN ns.extlinks :
             CountPlaceholders(ns.extlinks[name][1]) = 1
    /\ lastOp = "expand" =>
          /\ ~out.warning
          /\ CountPlaceholders(out.url) = CountPlaceholders(out.part)
          /\ Len(out.url) = Len(ns.extlinks[out.role][1]) - 2 + Len(out.part)

\* the epub role expanded with a version that itself reads '%s'
C2_Witness ==
    /\ lastOp = "expand"
    /\ out.role = "silhouette-epub-doc"
    /\ out.part = <<"%", "s">>
    /\ CountPlaceholders(out.url) = 1

\* C3: an expansion yields baseUrl + version + trailingSegment, the trailing
\* segment being '/', and the caption prefix is empty so that the caption is
\* the version; the api role with "2.0" yields the api base followed by 2.0/.
C3_ExpansionIsBaseVersionSlash ==
    lastOp = "expand" =>
       LET pattern == ns.extlinks[out.role][1]
           prefix == ns.extlinks[out.role][2]
       IN /\ out.url = BaseUrl(pattern) \o out.part \o TrailingSegment(pattern)
          /\ TrailingSegment(pattern) = <<"/">>
          /\ prefix = << >>
          /\ out.title = out.part
          /\ (out.role = "silhouette-api-doc" /\ out.part = <<"2.0">>) =>
                out.url = <<"http://silhouette.mohiva.com/api/", "2.0", "/">>

\* the api role expanded with version 2.0
C3_Witness ==
    /\ lastOp = "expand"
    /\ out.role = "silhouette-api-doc"
    /\ out.part = <<"2.0">>
    /\ out.url = <<"http://silhouette.mohiva.com/api/", "2.0", "/">>

\* C4: no load ends in an error; a failed import is caught, leaves no
\* exception in flight and html_theme at 'default'; every position before
\* the end has a next step; at the end the settings after the probe are bound.
C4_LoadAlwaysSucceeds ==
    /\ pc # "error"
    /\ (~Loaded /\ pc # "error") => ENABLED LoadStep
    /\ (pc \in {"html", "latex", "done"} /\ importAttempted /\ ~installed) =>
          exc = "" /\ ns.html_theme = "default"
    /\ Loaded => LateSettings \subseteq DOMAIN ns

\* a load that attempted the import without the module ran to its end
C4_Witness ==
    /\ Loaded /\ importAttempted /\ ~installed /\ exc = ""
    /\ ns.html_theme = "default" /\ Defined(ns, "man_pages")

\* C5: every completed load, the first or a later one, into a new namespace
\* or into the old one, yields the values the first load yielded.
C5_LoadIdempotent ==
    Loaded => ns = firstLoad

\* a second load has completed
C5_Witness ==
    Loaded /\ loads >= 2 /\ lastOp = "load" /\ ns = firstLoad

\* C6: a call of the hook appends the one stylesheet 'theme_overrides.css'
\* to the host's registry, returns None and leaves the configuration alone.
C6_SetupRegistersOneStylesheet ==
    [][lastOp' = "setup" =>
          /\ app' = Append(app, "theme_overrides.css")
          /\ out' = None
          /\ ns' = ns]_vars

\* the hook has been called twice
C6_Witness ==
    /\ lastOp = "setup"
    /\ app = <<"theme_overrides.css", "theme_overrides.css">>
    /\ out = None

\* C7: no step taken after the load has completed (a read, an expansion, a
\* call of the hook) changes the configuration.
C7_ConfigurationReadOnlyAfterLoad ==
    [][(pc = "done" /\ pc' = "done") => ns' = ns]_vars

\* an expansion after a call of the hook sees the configuration as loaded
C7_Witness ==
    Loaded /\ lastOp = "expand" /\ app # << >> /\ ns = firstLoad

\* C8: the loaded version strings, and |last_stable| expanding to the
\* silhouette-doc role, a key of extlinks, applied to last_stable.
C8_VersionsAndProlog ==
    Loaded =>
       /\ ns.version = "2"
       /\ ns.release = "2.0-SNAPSHOT"
       /\ ns.last_stable = "1.0"
       /\ ns.rst_prolog = <<"\n.. |last_stable| replace:: ", ":", "silhouette-doc",
                            ":", BackQuote, "1.0", BackQuote, "\n">>
       /\ ns.rst_prolog[3] \in DOMAIN ns.extlinks
       /\ ns.rst_prolog[6] = ns.last_stable
       /\ ns.rst_prolog[6] # ns.release

\* the host has read the prolog
C8_Witness ==
    /\ Loaded /\ lastOp = "read"
    /\ out.name = "rst_prolog"
    /\ out.value[6] = "1.0"

\* C9: on_rtd is true exactly when READTHEDOCS is 'True'; then the import is
\* never attempted and html_theme is 'default'; otherwise the import is
\* attempted and html_theme is 'sphinx_rtd_theme' iff it succeeds.
C9_ProbeGatedByHostedFlag ==
    /\ Defined(ns, "on_rtd") => (ns.on_rtd <=> Hosted)
    /\ Hosted => ~importAttempted
    /\ Loaded =>
          IF Hosted
          THEN ns.html_theme = "default"
          ELSE /\ importAttempted
               /\ ns.html_theme = "sphinx_rtd_theme" <=> installed
               /\ ns.html_theme = "default" <=> ~installed

\* a hosted load with the module present never attempted the import
C9_Witness ==
    /\ Loaded /\ Hosted /\ installed
    /\ ns.on_rtd /\ ~importAttempted /\ ns.html_theme = "default"

\* C10: after a load html_theme is one of the two identifiers, and
\* html_theme_path is bound exactly when it is 'sphinx_rtd_theme'.
C10_ThemePathIffAlternateTheme ==
    Loaded =>
       /\ ns.html_theme \in {"default", "sphinx_rtd_theme"}
       /\ Defined(ns, "html_theme_path") <=> ns.html_theme = "sphinx_rtd_theme"

\* a load that chose the default theme and bound no path
C10_Witness ==
    Loaded /\ ~installed /\ ns.html_theme = "default" /\ ~Defined(ns, "html_theme_path")

====
